---- MODULE Spec2Model ----
(***************************************************************************)
(* A model of xiaozhi_baidumap_mcp: the validators, the URI builder, the   *)
(* Navigator and the tools of src/xiaozhi_baidumap_mcp/baidumap.py.        *)
(*                                                                         *)
(* Text is modelled by TLA+ strings, read character by character with      *)
(* Len, SubSeq and \o.  A Python value is a tagged record: None, Str(s),   *)
(* PyInteger(n), and, for what json.loads decodes, Bool, Float, List, Dict. *)
(* A result envelope is the record [success, error] or [success, message]. *)
(***************************************************************************)
EXTENDS Integers, Sequences, FiniteSets, TLC

VARIABLES
    pc,                 \* "idle": waiting for a request; "done": a call has ended
    tool,               \* the function the last request invoked
    args,               \* its arguments
    device,             \* how the device collaborator behaves during the call
    outcome,            \* "returned" | "raised" ("none" while idle)
    result,             \* the value returned, or the exception raised
    retAt,              \* the return statement taken: "validate" | "navigate" | ...
    buildCalls,         \* the calls of build_baidu_uri made during the call
    navCalls,           \* the URIs handed to Navigate during the call
    navResults,         \* what each of those Navigate calls returned
    startActivityCalls, \* how often device.start_activity was invoked
    locationCalls       \* the calls of device.get_current_location made during the call

vars == <<pc, tool, args, device, outcome, result, retAt, buildCalls, navCalls,
          navResults, startActivityCalls, locationCalls>>

(***************************************************************************)
(* Python values                                                           *)
(***************************************************************************)
None == [t |-> "None"]
Str(s) == [t |-> "str", s |-> s]
PyInteger(n) == [t |-> "int", n |-> n]
Bool(b) == [t |-> "bool", b |-> b]
Float(lit) == [t |-> "float", lit |-> lit]
List(items) == [t |-> "list", items |-> items]
Dict(items) == [t |-> "dict", items |-> items]

IsStr(v) == v.t = "str"
IsInt(v) == v.t = "int"
\* isinstance(v, (int, float)): bool is a subclass of int
IsNumber(v) == v.t \in {"int", "bool", "float"}

\* f"{type(x)}"
TypeName(v) ==
    CASE v.t = "None" -> "<class 'NoneType'>"
      [] OTHER -> "<class '" \o v.t \o "'>"

\* The envelope a validator or a tool returns on failure.
Failure(msg) == [success |-> FALSE, error |-> msg]
IsFailure(r) == DOMAIN r = {"success", "error"} /\ r.success = FALSE
IsSuccess(r) == DOMAIN r = {"success", "message"} /\ r.success = TRUE

(***************************************************************************)
(* Text                                                                    *)
(***************************************************************************)
Ch(s, i) == IF 1 <= i /\ i <= Len(s) THEN SubSeq(s, i, i) ELSE ""
From(s, i) == SubSeq(s, i, Len(s))

Digits == {"0", "1", "2", "3", "4", "5", "6", "7", "8", "9"}
IsDigit(c) == c \in Digits
IsSpace(c) == c \in {" ", "\t", "\n", "\r", "\f"}

DigitVal(c) ==
    CASE c = "0" -> 0 [] c = "1" -> 1 [] c = "2" -> 2 [] c = "3" -> 3
      [] c = "4" -> 4 [] c = "5" -> 5 [] c = "6" -> 6 [] c = "7" -> 7
      [] c = "8" -> 8 [] c = "9" -> 9

DigitCh(d) == Ch("0123456789", d + 1)

\* sub occurs in s starting at position i
StartsAt(s, i, sub) ==
    i >= 1 /\ i + Len(sub) - 1 <= Len(s) /\ SubSeq(s, i, i + Len(sub) - 1) = sub

\* Python: sub in s
Contains(s, sub) == \E i \in 1..(Len(s) + 1) : StartsAt(s, i, sub)

RECURSIVE LStripFrom(_, _)
LStripFrom(s, i) ==
    IF i <= Len(s) /\ IsSpace(Ch(s, i)) THEN LStripFrom(s, i + 1) ELSE i

RECURSIVE RStripTo(_, _)
RStripTo(s, j) ==
    IF j >= 1 /\ IsSpace(Ch(s, j)) THEN RStripTo(s, j - 1) ELSE j

\* Python: s.strip()
Strip(s) == SubSeq(s, LStripFrom(s, 1), RStripTo(s, Len(s)))

\* Python: s.split(sep) for a one-character sep; start is where the current
\* part begins and i the position being read.
RECURSIVE SplitFrom(_, _, _, _)
SplitFrom(s, sep, start, i) ==
    IF i > Len(s) THEN <<SubSeq(s, start, Len(s))>>
    ELSE IF Ch(s, i) = sep
         THEN <<SubSeq(s, start, i - 1)>> \o SplitFrom(s, sep, i + 1, i + 1)
         ELSE SplitFrom(s, sep, start, i + 1)

Split(s, sep) == SplitFrom(s, sep, 1, 1)

\* Python: str(n) of an integer
RECURSIVE NatStr(_)
NatStr(n) == IF n < 10 THEN DigitCh(n) ELSE NatStr(n \div 10) \o DigitCh(n % 10)

IntStr(n) == IF n < 0 THEN "-" \o NatStr(-n) ELSE NatStr(n)

LowerCh(c) ==
    CASE c = "I" -> "i" [] c = "N" -> "n" [] c = "F" -> "f" [] c = "T" -> "t"
      [] c = "Y" -> "y" [] c = "A" -> "a" [] OTHER -> c

RECURSIVE Lower(_)
Lower(s) == IF s = "" THEN "" ELSE LowerCh(Ch(s, 1)) \o Lower(From(s, 2))

(***************************************************************************)
(* float(text) and int(text) as CPython reads them                         *)
(***************************************************************************)
SkipSign(s, i) == IF Ch(s, i) \in {"+", "-"} THEN i + 1 ELSE i

\* digitpart: digit (["_"] digit)*.  The position after the longest one that
\* starts at i; i itself when none starts there.
RECURSIVE ScanDigitPart(_, _)
ScanDigitPart(s, i) ==
    IF ~IsDigit(Ch(s, i)) THEN i
    ELSE IF IsDigit(Ch(s, i + 1)) THEN ScanDigitPart(s, i + 1)
    ELSE IF Ch(s, i + 1) = "_" /\ IsDigit(Ch(s, i + 2)) THEN ScanDigitPart(s, i + 2)
    ELSE i + 1

\* The position after the exponent that starts at i (i when there is none,
\* 0 when an exponent mark is followed by no digits).
ScanExponent(s, i) ==
    IF Ch(s, i) \in {"e", "E"}
    THEN LET d == SkipSign(s, i + 1)
             e == ScanDigitPart(s, d)
         IN  IF e > d THEN e ELSE 0
    ELSE i

\* float(text) does not raise ValueError
PyFloatOk(text) ==
    LET s == Strip(text)
        i == SkipSign(s, 1)
        a == ScanDigitPart(s, i)
        dot == Ch(s, a) = "."
        b == IF dot THEN ScanDigitPart(s, a + 1) ELSE a
        mantissa == a > i \/ (dot /\ b > a + 1)
        e == ScanExponent(s, b)
    IN  \/ Lower(From(s, i)) \in {"inf", "infinity", "nan"}
        \/ mantissa /\ e = Len(s) + 1

RECURSIVE DigitPartVal(_, _)
DigitPartVal(s, acc) ==
    IF s = "" THEN acc
    ELSE IF Ch(s, 1) = "_" THEN DigitPartVal(From(s, 2), acc)
    ELSE DigitPartVal(From(s, 2), 10 * acc + DigitVal(Ch(s, 1)))

\* int(text): [ok |-> it does not raise ValueError, n |-> its value]
PyInt(text) ==
    LET s == Strip(text)
        i == SkipSign(s, 1)
        a == ScanDigitPart(s, i)
        ok == a > i /\ a = Len(s) + 1
        mag == IF ok THEN DigitPartVal(From(s, i), 0) ELSE 0
    IN  [ok |-> ok, n |-> IF Ch(s, 1) = "-" THEN -mag ELSE mag]

(***************************************************************************)
(* str(v) and repr(v), as f-strings and urlencode use them                 *)
(***************************************************************************)
\* repr of a str: single quotes, unless the text holds one and no double quote
StrRepr(s) ==
    IF Contains(s, "'") /\ ~Contains(s, "\"") THEN "\"" \o s \o "\"" ELSE "'" \o s \o "'"

RECURSIVE PyRepr(_), ReprItems(_), ReprPairs(_)
PyRepr(v) ==
    CASE v.t = "None" -> "None"
      [] v.t = "str" -> StrRepr(v.s)
      [] v.t = "int" -> IntStr(v.n)
      [] v.t = "bool" -> IF v.b THEN "True" ELSE "False"
      [] v.t = "float" -> v.lit
      [] v.t = "list" -> "[" \o ReprItems(v.items) \o "]"
      [] v.t = "dict" -> "{" \o ReprPairs(v.items) \o "}"

ReprItems(items) ==
    IF items = <<>> THEN ""
    ELSE PyRepr(Head(items))
         \o (IF Len(items) > 1 THEN ", " \o ReprItems(Tail(items)) ELSE "")

ReprPairs(items) ==
    IF items = <<>> THEN ""
    ELSE StrRepr(Head(items)[1]) \o ": " \o PyRepr(Head(items)[2])
         \o (IF Len(items) > 1 THEN ", " \o ReprPairs(Tail(items)) ELSE "")

PyStr(v) == IF v.t = "str" THEN v.s ELSE PyRepr(v)

(***************************************************************************)
(* Configuration                                                           *)
(***************************************************************************)
DEFAULT_SRC == "andr.xiaomi.assistant"
BAIDUMAP_NATIVE_BASE_URL == "baidumap://map/"

(***************************************************************************)
(* Validation helper functions.  Each returns None or a failure envelope.  *)
(***************************************************************************)
\* A variant that looks at the first two parts only ("len(parts) < 2"): it is
\* not the code, and the lat,lng property has to tell it from the code.
LatLngAtLeastTwoParts(value_str, param_name) ==
    IF ~IsStr(value_str)
    THEN Failure("Parameter '" \o param_name \o "' must be a string, but got type "
                 \o TypeName(value_str) \o ".")
    ELSE LET parts == Split(value_str.s, ",")
         IN  IF Len(parts) < 2
             THEN Failure("Parameter '" \o param_name \o "' ('" \o value_str.s
                          \o "') has an incorrect format. Expected 'latitude,longitude' (e.g., '40.057406,116.296440').")
             ELSE IF ~(PyFloatOk(Strip(parts[1])) /\ PyFloatOk(Strip(parts[2])))
             THEN Failure("Parameter '" \o param_name \o "' ('" \o value_str.s
                          \o "') contains non-numeric coordinates. Both latitude and longitude must be numbers in 'latitude,longitude' format.")
             ELSE None

_validate_lat_lng_format(value_str, param_name) ==
    IF ~IsStr(value_str)
    THEN Failure("Parameter '" \o param_name \o "' must be a string, but got type "
                 \o TypeName(value_str) \o ".")
    ELSE LET parts == Split(value_str.s, ",")
         IN  IF Len(parts) # 2
             THEN Failure("Parameter '" \o param_name \o "' ('" \o value_str.s
                          \o "') has an incorrect format. Expected 'latitude,longitude' (e.g., '40.057406,116.296440').")
             ELSE IF ~(PyFloatOk(Strip(parts[1])) /\ PyFloatOk(Strip(parts[2])))
             THEN Failure("Parameter '" \o param_name \o "' ('" \o value_str.s
                          \o "') contains non-numeric coordinates. Both latitude and longitude must be numbers in 'latitude,longitude' format.")
             ELSE None

\* A variant that converts the first three parts only: not the code.
BoundsCheckingThreeParts(value_str, param_name) ==
    IF ~IsStr(value_str)
    THEN Failure("Parameter '" \o param_name \o "' must be a string, but got type "
                 \o TypeName(value_str) \o ".")
    ELSE LET parts == Split(value_str.s, ",")
         IN  IF Len(parts) # 4
             THEN Failure("Parameter '" \o param_name \o "' ('" \o value_str.s
                          \o "') has an incorrect format. Expected 'bottomLeftLat,bottomLeftLng,topRightLat,topRightLng' (e.g., '37.8,-112.5,42.1,118.9').")
             ELSE IF \E i \in 1..3 : ~PyFloatOk(Strip(parts[i]))
             THEN Failure("Parameter '" \o param_name \o "' ('" \o value_str.s
                          \o "') contains non-numeric values. All four coordinates must be numbers in the 'bottomLeftLat,...,topRightLng' format.")
             ELSE None

_validate_bounds_format(value_str, param_name) ==
    IF ~IsStr(value_str)
    THEN Failure("Parameter '" \o param_name \o "' must be a string, but got type "
                 \o TypeName(value_str) \o ".")
    ELSE LET parts == Split(value_str.s, ",")
         IN  IF Len(parts) # 4
             THEN Failure("Parameter '" \o param_name \o "' ('" \o value_str.s
                          \o "') has an incorrect format. Expected 'bottomLeftLat,bottomLeftLng,topRightLat,topRightLng' (e.g., '37.8,-112.5,42.1,118.9').")
             ELSE IF \E i \in 1..4 : ~PyFloatOk(Strip(parts[i]))
             THEN Failure("Parameter '" \o param_name \o "' ('" \o value_str.s
                          \o "') contains non-numeric values. All four coordinates must be numbers in the 'bottomLeftLat,...,topRightLng' format.")
             ELSE None

\* \d+ of the pattern: the position after the digits that start at i
RECURSIVE ScanDigits(_, _)
ScanDigits(s, i) == IF IsDigit(Ch(s, i)) THEN ScanDigits(s, i + 1) ELSE i

\* -?\d+\.?\d* at position i: the position after the match, 0 when none
ScanCoordinate(s, i) ==
    LET n == IF Ch(s, i) = "-" THEN i + 1 ELSE i
        d == ScanDigits(s, n)
        q == IF Ch(s, d) = "." THEN d + 1 ELSE d
    IN  IF d > n THEN ScanDigits(s, q) ELSE 0

\* COMPLEX_LATLNG_EXTRACT_PATTERN matched at position i of s: group(1), or
\* None when the pattern does not match there.
PatternAt(s, i) ==
    LET p == i + Len("latlng:")
        c == ScanCoordinate(s, p)
        e == IF c > 0 /\ Ch(s, c) = "," THEN ScanCoordinate(s, c + 1) ELSE 0
    IN  IF StartsAt(s, i, "latlng:") /\ e > 0 THEN Str(SubSeq(s, p, e - 1)) ELSE None

\* COMPLEX_LATLNG_EXTRACT_PATTERN.search(s): group(1) of the leftmost match
RECURSIVE SearchFrom(_, _)
SearchFrom(s, i) ==
    IF i > Len(s) THEN None
    ELSE IF PatternAt(s, i) # None THEN PatternAt(s, i)
    ELSE SearchFrom(s, i + 1)

COMPLEX_LATLNG_EXTRACT_PATTERN(s) == SearchFrom(s, 1)

_validate_location_field_format(value_str, param_name) ==
    IF ~IsStr(value_str)
    THEN Failure("Parameter '" \o param_name \o "' must be a string, but got type "
                 \o TypeName(value_str) \o ".")
    ELSE LET match == COMPLEX_LATLNG_EXTRACT_PATTERN(value_str.s)
         IN  IF match # None
             THEN _validate_lat_lng_format(match,
                      "coordinate part identified by 'latlng:' in '" \o param_name
                      \o "' ('" \o value_str.s \o "')")
             ELSE IF /\ Contains(value_str.s, ",")
                     /\ ~(\E kw \in {"name:", "uid:"} : Contains(value_str.s, kw))
             THEN _validate_lat_lng_format(value_str, param_name)
             ELSE None

CoordTypes == {"bd09ll", "bd09mc", "gcj02", "wgs84"}

_validate_coord_type(coord_type) ==
    IF ~(IsStr(coord_type) /\ coord_type.s \in CoordTypes)
    THEN Failure("Invalid coordinate type '" \o PyStr(coord_type)
                 \o "'. It should be one of 'bd09ll', 'bd09mc', 'gcj02', or 'wgs84'.")
    ELSE None

ZOOM_MIN == 1
ZOOM_MAX == 22

\* A variant that starts with "if zoom is None: return None": not the code.
ZoomAcceptingNull(zoom) ==
    IF zoom = None THEN None
    ELSE IF ~(IsInt(zoom) \/ IsStr(zoom))
    THEN Failure("Invalid zoom level type '" \o TypeName(zoom)
                 \o "'. It should be an integer or string.")
    ELSE IF IsStr(zoom) /\ ~PyInt(zoom.s).ok
    THEN Failure("Invalid zoom level '" \o zoom.s \o "'. It should be an integer.")
    ELSE LET n == IF IsStr(zoom) THEN PyInt(zoom.s).n ELSE zoom.n
         IN  IF n < ZOOM_MIN \/ n > ZOOM_MAX
             THEN Failure("Invalid zoom level '" \o IntStr(n)
                          \o "'. It should be between 1 and 22.")
             ELSE None

_validate_zoom_level(zoom) ==
    IF ~(IsInt(zoom) \/ IsStr(zoom))
    THEN Failure("Invalid zoom level type '" \o TypeName(zoom)
                 \o "'. It should be an integer or string.")
    ELSE IF IsStr(zoom) /\ ~PyInt(zoom.s).ok
    THEN Failure("Invalid zoom level '" \o zoom.s \o "'. It should be an integer.")
    ELSE LET n == IF IsStr(zoom) THEN PyInt(zoom.s).n ELSE zoom.n
         IN  IF n < ZOOM_MIN \/ n > ZOOM_MAX
             THEN Failure("Invalid zoom level '" \o IntStr(n)
                          \o "'. It should be between 1 and 22.")
             ELSE None

_validate_traffic(traffic) ==
    IF traffic = None THEN None
    ELSE IF ~IsStr(traffic)
    THEN Failure("Invalid traffic type '" \o TypeName(traffic) \o "'. It should be a string.")
    ELSE IF traffic.s \notin {"on", "off"}
    THEN Failure("Invalid traffic value '" \o traffic.s \o "'. It should be 'on' or 'off'.")
    ELSE None

(***************************************************************************)
(* json.loads.  A parse yields [ok |-> FALSE] (JSONDecodeError) or         *)
(* [ok |-> TRUE, v |-> the value, j |-> the position after it].            *)
(* A float keeps its literal, which is its repr for the literals the       *)
(* requests of this model carry; \b and \uXXXX escapes decode to "?".      *)
(***************************************************************************)
JsonFail == [ok |-> FALSE]
JsonOk(v, j) == [ok |-> TRUE, v |-> v, j |-> j]

RECURSIVE SkipWs(_, _)
SkipWs(s, i) == IF Ch(s, i) \in {" ", "\t", "\n", "\r"} THEN SkipWs(s, i + 1) ELSE i

Unescape(e) ==
    CASE e \in {"\"", "\\", "/"} -> e
      [] e = "n" -> "\n" [] e = "t" -> "\t" [] e = "r" -> "\r" [] e = "f" -> "\f"
      [] OTHER -> "?"

\* The rest of a string literal whose opening quote has been read.
RECURSIVE ScanString(_, _, _)
ScanString(s, i, acc) ==
    LET c == Ch(s, i)
    IN  IF i > Len(s) \/ c \in {"\n", "\t", "\r", "\f"} THEN JsonFail
        ELSE IF c = "\"" THEN JsonOk(Str(acc), i + 1)
        ELSE IF c = "\\"
        THEN IF Ch(s, i + 1) \in {"\"", "\\", "/", "b", "f", "n", "r", "t"}
             THEN ScanString(s, i + 2, acc \o Unescape(Ch(s, i + 1)))
             ELSE IF Ch(s, i + 1) = "u" /\ i + 5 <= Len(s)
             THEN ScanString(s, i + 6, acc \o "?")
             ELSE JsonFail
        ELSE ScanString(s, i + 1, acc \o c)

\* NUMBER_RE at position i: (-?(?:0|[1-9]\d*))(\.\d+)?([eE][-+]?\d+)?
\* n is where the digits start, a where the integer part ends, f where the
\* fraction ends and e where the exponent ends.
NumberValue(s, i, n, a, e) ==
    IF a = n THEN JsonFail
    ELSE IF e = a
    THEN JsonOk(PyInteger((IF n > i THEN -1 ELSE 1) * DigitPartVal(SubSeq(s, n, a - 1), 0)), e)
    ELSE JsonOk(Float(SubSeq(s, i, e - 1)), e)

NumberExponent(s, i, n, a, f) ==
    NumberValue(s, i, n, a,
                IF Ch(s, f) \in {"e", "E"} /\ IsDigit(Ch(s, SkipSign(s, f + 1)))
                THEN ScanDigits(s, SkipSign(s, f + 1)) ELSE f)

NumberFraction(s, i, n, a) ==
    NumberExponent(s, i, n, a,
                   IF Ch(s, a) = "." /\ IsDigit(Ch(s, a + 1)) THEN ScanDigits(s, a + 1) ELSE a)

NumberInteger(s, i, n) ==
    NumberFraction(s, i, n, IF Ch(s, n) = "0" THEN n + 1 ELSE ScanDigits(s, n))

ScanNumber(s, i) == NumberInteger(s, i, IF Ch(s, i) = "-" THEN i + 1 ELSE i)

\* dict[k] = v: a repeated key keeps its place and takes the later value
DictPut(items, k, v) ==
    IF \E x \in 1..Len(items) : items[x][1] = k
    THEN [x \in 1..Len(items) |-> IF items[x][1] = k THEN <<k, v>> ELSE items[x]]
    ELSE Append(items, <<k, v>>)

\* The literals that are neither a string, an object, an array nor a number
ScanLiteral(s, i) ==
    IF StartsAt(s, i, "null") THEN JsonOk(None, i + 4)
    ELSE IF StartsAt(s, i, "true") THEN JsonOk(Bool(TRUE), i + 4)
    ELSE IF StartsAt(s, i, "false") THEN JsonOk(Bool(FALSE), i + 5)
    ELSE IF StartsAt(s, i, "NaN") THEN JsonOk(Float("nan"), i + 3)
    ELSE IF StartsAt(s, i, "Infinity") THEN JsonOk(Float("inf"), i + 8)
    ELSE IF StartsAt(s, i, "-Infinity") THEN JsonOk(Float("-inf"), i + 9)
    ELSE JsonFail

\* number, when NUMBER_RE matches, else other
IfNumber(number, other) == IF number.ok THEN number ELSE other

RECURSIVE ScanOnce(_, _), ScanArray(_, _, _), ArrayItem(_, _, _), ArrayNext(_, _, _),
          ScanObject(_, _, _), ObjectKey(_, _, _), ObjectValue(_, _, _, _),
          ObjectNext(_, _, _)
\* scan_once: the value that starts at position i
ScanOnce(s, i) ==
    CASE Ch(s, i) = "\"" -> ScanString(s, i + 1, "")
      [] Ch(s, i) = "{" -> ScanObject(s, SkipWs(s, i + 1), <<>>)
      [] Ch(s, i) = "[" -> ScanArray(s, SkipWs(s, i + 1), <<>>)
      [] Ch(s, i) \in {"n", "t", "f"} -> ScanLiteral(s, i)
      [] OTHER -> IfNumber(ScanNumber(s, i), ScanLiteral(s, i))

\* JSONArray: the items from position i on, after those in acc
ScanArray(s, i, acc) ==
    IF acc = <<>> /\ Ch(s, i) = "]" THEN JsonOk(List(<<>>), i + 1)
    ELSE ArrayItem(s, ScanOnce(s, i), acc)

ArrayItem(s, item, acc) ==
    IF ~item.ok THEN JsonFail
    ELSE ArrayNext(s, SkipWs(s, item.j), Append(acc, item.v))

ArrayNext(s, k, items) ==
    IF Ch(s, k) = "]" THEN JsonOk(List(items), k + 1)
    ELSE IF Ch(s, k) = "," THEN ScanArray(s, SkipWs(s, k + 1), items)
    ELSE JsonFail

\* JSONObject: the pairs from position i on, after those in acc
ScanObject(s, i, acc) ==
    IF acc = <<>> /\ Ch(s, i) = "}" THEN JsonOk(Dict(<<>>), i + 1)
    ELSE IF Ch(s, i) # "\"" THEN JsonFail
    ELSE ObjectKey(s, ScanString(s, i + 1, ""), acc)

ObjectKey(s, key, acc) ==
    IF ~key.ok \/ Ch(s, SkipWs(s, key.j)) # ":" THEN JsonFail
    ELSE ObjectValue(s, key.v.s, ScanOnce(s, SkipWs(s, SkipWs(s, key.j) + 1)), acc)

ObjectValue(s, k, val, acc) ==
    IF ~val.ok THEN JsonFail
    ELSE ObjectNext(s, SkipWs(s, val.j), DictPut(acc, k, val.v))

ObjectNext(s, k, items) ==
    IF Ch(s, k) = "}" THEN JsonOk(Dict(items), k + 1)
    ELSE IF Ch(s, k) = "," THEN ScanObject(s, SkipWs(s, k + 1), items)
    ELSE JsonFail

\* json.loads(text) of a str: the whole text must be one value
WholeText(text, r) == IF r.ok /\ SkipWs(text, r.j) = Len(text) + 1 THEN r ELSE JsonFail

json_loads(text) == WholeText(text, ScanOnce(text, SkipWs(text, 1)))

DictHas(d, k) == \E x \in 1..Len(d.items) : d.items[x][1] = k
DictGet(d, k) == d.items[CHOOSE x \in 1..Len(d.items) : d.items[x][1] = k][2]

(***************************************************************************)
(* Navigation and URI building                                             *)
(***************************************************************************)
Unreserved ==
    Digits \cup {"_", ".", "-", "~"}
    \cup {"a", "b", "c", "d", "e", "f", "g", "h", "i", "j", "k", "l", "m",
          "n", "o", "p", "q", "r", "s", "t", "u", "v", "w", "x", "y", "z"}
    \cup {"A", "B", "C", "D", "E", "F", "G", "H", "I", "J", "K", "L", "M",
          "N", "O", "P", "Q", "R", "S", "T", "U", "V", "W", "X", "Y", "Z"}

\* quote_plus of one ASCII character
QuoteCh(c) ==
    CASE c \in Unreserved -> c
      [] c = " " -> "+"    [] c = "!" -> "%21"  [] c = "\"" -> "%22" [] c = "#" -> "%23"
      [] c = "$" -> "%24"  [] c = "%" -> "%25"  [] c = "&" -> "%26"  [] c = "'" -> "%27"
      [] c = "(" -> "%28"  [] c = ")" -> "%29"  [] c = "*" -> "%2A"  [] c = "+" -> "%2B"
      [] c = "," -> "%2C"  [] c = "/" -> "%2F"  [] c = ":" -> "%3A"  [] c = ";" -> "%3B"
      [] c = "<" -> "%3C"  [] c = "=" -> "%3D"  [] c = ">" -> "%3E"  [] c = "?" -> "%3F"
      [] c = "@" -> "%40"  [] c = "[" -> "%5B"  [] c = "\\" -> "%5C" [] c = "]" -> "%5D"
      [] c = "^" -> "%5E"  [] c = "{" -> "%7B"  [] c = "|" -> "%7C"
      [] c = "}" -> "%7D"  [] c = "\n" -> "%0A" [] c = "\t" -> "%09" [] c = "\r" -> "%0D"
      [] c = "\f" -> "%0C"

RECURSIVE quote_plus(_)
quote_plus(s) == IF s = "" THEN "" ELSE QuoteCh(Ch(s, 1)) \o quote_plus(From(s, 2))

\* urlencode of a dict given as its <<key, value>> pairs in insertion order
RECURSIVE urlencode(_)
urlencode(params) ==
    IF params = <<>> THEN ""
    ELSE quote_plus(Head(params)[1]) \o "=" \o quote_plus(PyStr(Head(params)[2]))
         \o (IF Len(params) > 1 THEN "&" \o urlencode(Tail(params)) ELSE "")

\* A variant that filters with "if v" instead of "if v is not None", and so
\* drops "" and 0 as well: not the code.
BuildDroppingFalsy(path, params) ==
    LET filtered_params == SelectSeq(params, LAMBDA kv : kv[2] \notin {None, Str(""), PyInteger(0)})
        query_string == urlencode(filtered_params)
        full_uri == BAIDUMAP_NATIVE_BASE_URL \o path
    IN  IF query_string # "" THEN full_uri \o "?" \o query_string ELSE full_uri

build_baidu_uri(path, params) ==
    LET filtered_params == SelectSeq(params, LAMBDA kv : kv[2] # None)
        query_string == urlencode(filtered_params)
        full_uri == BAIDUMAP_NATIVE_BASE_URL \o path
    IN  IF query_string # "" THEN full_uri \o "?" \o query_string ELSE full_uri

\* How the device collaborator behaves during a call: "ok", or the statement
\* of Navigate's try block that raises.
NavSteps == <<"AndroidDevice", "Intent", "set_flags", "Uri.parse", "set_data", "start_activity">>
Devices == {"ok"} \cup {NavSteps[i] : i \in 1..Len(NavSteps)}

\* str(e) of the exception the collaborator raises at a step
DeviceError(step) == step \o " failed"

\* Two variants that are not the code: one tries start_activity a second time
\* when it fails, the other has no except clause around Uri.parse.
NavigateRetrying(uri, dev) ==
    IF dev = "ok"
    THEN [raised |-> FALSE, starts |-> 1,
          value |-> [success |-> TRUE, message |-> "Successfully navigated to URI: " \o uri]]
    ELSE [raised |-> FALSE, starts |-> IF dev = "start_activity" THEN 2 ELSE 0,
          value |-> [success |-> FALSE, error |-> DeviceError(dev)]]

NavigatePropagating(uri, dev) ==
    IF dev = "ok"
    THEN [raised |-> FALSE, starts |-> 1,
          value |-> [success |-> TRUE, message |-> "Successfully navigated to URI: " \o uri]]
    ELSE IF dev = "Uri.parse"
    THEN [raised |-> TRUE, starts |-> 0, value |-> [exception |-> DeviceError(dev)]]
    ELSE [raised |-> FALSE, starts |-> IF dev = "start_activity" THEN 1 ELSE 0,
          value |-> [success |-> FALSE, error |-> DeviceError(dev)]]

\* Navigate(uri) under a device behaviour:
\* [raised, value (the envelope returned), starts (start_activity calls)]
Navigate(uri, dev) ==
    IF dev = "ok"
    THEN [raised |-> FALSE, starts |-> 1,
          value |-> [success |-> TRUE, message |-> "Successfully navigated to URI: " \o uri]]
    ELSE [raised |-> FALSE, starts |-> IF dev = "start_activity" THEN 1 ELSE 0,
          value |-> [success |-> FALSE, error |-> DeviceError(dev)]]

(***************************************************************************)
(* What one call of a tool does.  A call ends by returning a value or by   *)
(* raising; the record keeps the return statement taken and every call of  *)
(* build_baidu_uri, Navigate and start_activity made on the way.           *)
(***************************************************************************)
TypeError == [exception |-> "TypeError"]
IsException(x) == DOMAIN x = {"exception"}

\* "if error: return error", or an exception raised while validating
Stopped(stop) ==
    [outcome |-> IF IsException(stop) THEN "raised" ELSE "returned",
     result |-> stop,
     retAt |-> IF IsException(stop) THEN "raise" ELSE "validate",
     builds |-> <<>>, navs |-> <<>>, navResults |-> <<>>, starts |-> 0]

\* A variant that rewords the Navigator's failure before returning it: not the code.
DispatchRewording(function_path, params, dev) ==
    LET uri == build_baidu_uri(function_path, params)
        nav == Navigate(uri, dev)
    IN  [outcome |-> IF nav.raised THEN "raised" ELSE "returned",
         result |-> IF IsFailure(nav.value) THEN Failure("Navigation failed.") ELSE nav.value,
         retAt |-> "navigate",
         builds |-> <<[path |-> function_path, params |-> params, uri |-> uri]>>,
         navs |-> <<uri>>,
         navResults |-> <<nav.value>>,
         starts |-> nav.starts]

\* "uri = build_baidu_uri(function_path, params); return Navigate(uri)"
Dispatch(function_path, params, dev) ==
    LET uri == build_baidu_uri(function_path, params)
        nav == Navigate(uri, dev)
    IN  [outcome |-> IF nav.raised THEN "raised" ELSE "returned",
         result |-> nav.value,
         retAt |-> "navigate",
         builds |-> <<[path |-> function_path, params |-> params, uri |-> uri]>>,
         navs |-> <<uri>>,
         navResults |-> <<nav.value>>,
         starts |-> nav.starts]

\* A variant that runs every check and returns the error of the last one that
\* fails: not the code.
OrElseKeepingLast(error, rest) == IF rest # None THEN rest ELSE error

\* "error = check; if error: return error", followed by the rest of the checks:
\* the first check that does not pass ends the call, the rest is not run.
OrElse(error, rest) == IF error # None THEN error ELSE rest

\* Python truthiness of None, a str or an int
Truthy(v) ==
    CASE v.t = "None" -> FALSE
      [] v.t = "str" -> v.s # ""
      [] v.t = "int" -> v.n # 0
      [] OTHER -> TRUE

\* "if x is not None: error = validator(x, ...)"
Optional(v, check) == IF v = None THEN None ELSE check

\* "if v is None / not isinstance(v, str) / v.strip() == ''" of address and query
RequiredText(v, missing, what) ==
    IF v = None THEN Failure(missing)
    ELSE IF ~IsStr(v)
    THEN Failure(what \o " must be a string, but got type " \o TypeName(v) \o ".")
    ELSE IF Strip(v.s) = "" THEN Failure(what \o " cannot be an empty string.")
    ELSE None

\* A variant whose membership test always succeeds: not the code.
AmongWhatever(v, allowed) == FALSE

\* "v is not None and v not in allowed" for a list of str
NotAmong(v, allowed) == ~(IsStr(v) /\ v.s \in allowed)

Modes == {"transit", "driving", "walking", "riding", "truck", "neweng"}
CarTypes == {"BLK", "TIME", "DIS", "FEE", "HIGHWAY", "DEFAULT"}
SY_MIN == 0
SY_MAX == 6

\* The loop over the decoded way-points: the first point that fails a check
\* decides.  check_types is the isinstance check of name, lat and lng.
RECURSIVE CheckPoints(_, _)
CheckPoints(points, check_types) ==
    IF points = <<>> THEN None
    ELSE LET point == Head(points)
         IN  IF point.t # "dict"
             THEN Failure("Invalid via_points_json format. Each point should be a dictionary.")
             ELSE IF ~(DictHas(point, "name") /\ DictHas(point, "lat") /\ DictHas(point, "lng"))
             THEN Failure("Invalid via_points_json format. Each point should contain 'name', 'lat', and 'lng' keys.")
             ELSE IF /\ check_types
                     /\ ~(/\ IsStr(DictGet(point, "name"))
                          /\ IsNumber(DictGet(point, "lat"))
                          /\ IsNumber(DictGet(point, "lng")))
             THEN Failure("Invalid via_points_json format. 'name' should be a string, and 'lat' and 'lng' should be numbers.")
             ELSE CheckPoints(Tail(points), check_types)

\* A variant that decodes into a local variable and leaves via_points_json as
\* the caller gave it: not the code.
ViaPointsKeepingText(via_points_json, check_types) ==
    IF via_points_json = None THEN [stop |-> None, value |-> None]
    ELSE IF ~IsStr(via_points_json) THEN [stop |-> TypeError, value |-> via_points_json]
    ELSE LET r == json_loads(via_points_json.s)
         IN  IF ~r.ok
             THEN [stop |-> Failure("Invalid via_points_json format. It should be a valid JSON string."),
                   value |-> via_points_json]
             ELSE IF r.v.t # "list"
             THEN [stop |-> Failure("Invalid via_points_json format. It should be a list of dictionaries."),
                   value |-> via_points_json]
             ELSE [stop |-> CheckPoints(r.v.items, check_types), value |-> via_points_json]

\* "if via_points_json is not None: ..." of baidumap_plan_route (check_types)
\* and baidumap_start_driving_navigation (no check_types):
\* [stop |-> None, a failure or an exception, value |-> via_points_json afterwards]
ViaPoints(via_points_json, check_types) ==
    IF via_points_json = None THEN [stop |-> None, value |-> None]
    ELSE IF ~IsStr(via_points_json) THEN [stop |-> TypeError, value |-> via_points_json]
    ELSE LET r == json_loads(via_points_json.s)
         IN  IF ~r.ok
             THEN [stop |-> Failure("Invalid via_points_json format. It should be a valid JSON string."),
                   value |-> via_points_json]
             ELSE IF r.v.t # "list"
             THEN [stop |-> Failure("Invalid via_points_json format. It should be a list of dictionaries."),
                   value |-> r.v]
             ELSE [stop |-> CheckPoints(r.v.items, check_types), value |-> r.v]

(***************************************************************************)
(* Tool definitions: a is the record of the call's arguments.              *)
(***************************************************************************)
\* A variant that validates center under "if center:" instead of
\* "if center is not None:": not the code.
ShowMapSkippingEmptyCenter(a, dev) ==
    LET stop == OrElse(
            IF ~Truthy(a.center) /\ ~Truthy(a.bounds)
            THEN Failure("Either 'center' or 'bounds' must be provided for showing the map.")
            ELSE None,
            OrElse(
            IF Truthy(a.center) THEN _validate_lat_lng_format(a.center, "center") ELSE None,
            OrElse(
            Optional(a.bounds, _validate_bounds_format(a.bounds, "bounds")),
            OrElse(
            _validate_zoom_level(a.zoom),
            OrElse(
            _validate_traffic(a.traffic),
            _validate_coord_type(a.coord_type))))))
    IN  IF stop # None THEN Stopped(stop)
        ELSE Dispatch("show",
                      <<<<"center", a.center>>, <<"bounds", a.bounds>>, <<"zoom", a.zoom>>,
                        <<"traffic", a.traffic>>, <<"coord_type", a.coord_type>>,
                        <<"src", Str(DEFAULT_SRC)>>>>, dev)

\* A variant without the "if not center and not bounds" return: not the code.
ShowMapWithoutPresenceCheck(a, dev) ==
    LET stop == OrElse(
            Optional(a.center, _validate_lat_lng_format(a.center, "center")),
            OrElse(
            Optional(a.bounds, _validate_bounds_format(a.bounds, "bounds")),
            OrElse(
            _validate_zoom_level(a.zoom),
            OrElse(
            _validate_traffic(a.traffic),
            _validate_coord_type(a.coord_type)))))
    IN  IF stop # None THEN Stopped(stop)
        ELSE Dispatch("show",
                      <<<<"center", a.center>>, <<"bounds", a.bounds>>, <<"zoom", a.zoom>>,
                        <<"traffic", a.traffic>>, <<"coord_type", a.coord_type>>,
                        <<"src", Str(DEFAULT_SRC)>>>>, dev)

baidumap_show_map(a, dev) ==
    LET stop == OrElse(
            IF ~Truthy(a.center) /\ ~Truthy(a.bounds)
            THEN Failure("Either 'center' or 'bounds' must be provided for showing the map.")
            ELSE None,
            OrElse(
            Optional(a.center, _validate_lat_lng_format(a.center, "center")),
            OrElse(
            Optional(a.bounds, _validate_bounds_format(a.bounds, "bounds")),
            OrElse(
            _validate_zoom_level(a.zoom),
            OrElse(
            _validate_traffic(a.traffic),
            _validate_coord_type(a.coord_type))))))
    IN  IF stop # None THEN Stopped(stop)
        ELSE Dispatch("show",
                      <<<<"center", a.center>>, <<"bounds", a.bounds>>, <<"zoom", a.zoom>>,
                        <<"traffic", a.traffic>>, <<"coord_type", a.coord_type>>,
                        <<"src", Str(DEFAULT_SRC)>>>>, dev)

baidumap_add_custom_marker(a, dev) ==
    LET stop == OrElse(
            _validate_lat_lng_format(a.location, "location"),
            OrElse(
            _validate_zoom_level(a.zoom),
            OrElse(
            _validate_traffic(a.traffic),
            _validate_coord_type(a.coord_type))))
    IN  IF stop # None THEN Stopped(stop)
        ELSE Dispatch("marker",
                      <<<<"location", a.location>>, <<"title", a.title>>,
                        <<"content", a.content>>, <<"zoom", a.zoom>>,
                        <<"traffic", a.traffic>>, <<"coord_type", a.coord_type>>,
                        <<"src", Str(DEFAULT_SRC)>>>>, dev)

\* A variant that builds the URI before it checks the address: not the code.
GeocodeBuildingFirst(a, dev) ==
    LET params == <<<<"address", a.address>>, <<"src", Str(DEFAULT_SRC)>>>>
        stop == RequiredText(a.address, "Address must be provided for geocoding.", "Address")
    IN  IF stop # None
        THEN [Stopped(stop) EXCEPT !.builds = <<[path |-> "geocoder", params |-> params,
                                                 uri |-> build_baidu_uri("geocoder", params)]>>]
        ELSE Dispatch("geocoder", params, dev)

baidumap_geocode_address(a, dev) ==
    LET stop == RequiredText(a.address, "Address must be provided for geocoding.", "Address")
    IN  IF stop # None THEN Stopped(stop)
        ELSE Dispatch("geocoder",
                      <<<<"address", a.address>>, <<"src", Str(DEFAULT_SRC)>>>>, dev)

baidumap_reverse_geocode_location(a, dev) ==
    LET stop == OrElse(
            _validate_lat_lng_format(a.location, "location"),
            OrElse(
            _validate_zoom_level(a.zoom),
            _validate_coord_type(a.coord_type)))
    IN  IF stop # None THEN Stopped(stop)
        ELSE Dispatch("geocoder",
                      <<<<"location", a.location>>, <<"coord_type", a.coord_type>>,
                        <<"zoom", a.zoom>>, <<"src", Str(DEFAULT_SRC)>>>>, dev)

baidumap_poi_search(a, dev) ==
    LET stop == OrElse(
            RequiredText(a.query, "Query must be provided for POI search.", "Query"),
            OrElse(
            Optional(a.location, _validate_location_field_format(a.location, "location")),
            OrElse(
            Optional(a.bounds, _validate_bounds_format(a.bounds, "bounds")),
            OrElse(
            IF a.radius = None THEN None
            ELSE IF ~IsInt(a.radius) THEN TypeError
            ELSE IF a.radius.n < 0 THEN Failure("Radius cannot be negative.")
            ELSE None,
            _validate_coord_type(a.coord_type)))))
    IN  IF stop # None THEN Stopped(stop)
        ELSE Dispatch("place/search",
                      <<<<"query", a.query>>, <<"region", a.region>>,
                        <<"location", a.location>>, <<"bounds", a.bounds>>,
                        <<"radius", a.radius>>, <<"coord_type", a.coord_type>>,
                        <<"src", Str(DEFAULT_SRC)>>>>, dev)

baidumap_plan_route(a, dev) ==
    LET via == ViaPoints(a.via_points_json, TRUE)
        stop == OrElse(
            _validate_location_field_format(a.origin, "origin"),
            OrElse(
            _validate_location_field_format(a.destination, "destination"),
            OrElse(
            IF NotAmong(a.mode, Modes)
            THEN Failure("Invalid mode '" \o PyStr(a.mode)
                         \o "'. It should be one of 'transit', 'driving', 'walking', 'riding', 'truck', or 'neweng'.")
            ELSE None,
            OrElse(
            _validate_coord_type(a.coord_type),
            OrElse(
            IF a.sy = None THEN None
            ELSE IF ~IsInt(a.sy) THEN TypeError
            ELSE IF ~(SY_MIN <= a.sy.n /\ a.sy.n <= SY_MAX)
            THEN Failure("Invalid sy value '" \o PyStr(a.sy) \o "'. It should be between 0 and 6.")
            ELSE None,
            OrElse(
            IF a.index = None THEN None
            ELSE IF ~IsInt(a.index) THEN TypeError
            ELSE IF a.index.n < 0
            THEN Failure("Invalid index value '" \o PyStr(a.index) \o "'. It should be non-negative.")
            ELSE None,
            OrElse(
            IF a.target # None /\ ~(IsInt(a.target) /\ a.target.n \in {0, 1})
            THEN Failure("Invalid target value '" \o PyStr(a.target)
                         \o "'. It should be 0 or 1. 0 for map, 1 for detail.")
            ELSE None,
            OrElse(
            IF a.car_type # None /\ NotAmong(a.car_type, CarTypes)
            THEN Failure("Invalid car_type value '" \o PyStr(a.car_type)
                         \o "'. It should be one of 'BLK', 'TIME', 'DIS', 'FEE', 'HIGHWAY', or 'DEFAULT'.")
            ELSE None,
            via.stop))))))))
    IN  IF stop # None THEN Stopped(stop)
        ELSE Dispatch("direction",
                      <<<<"origin", a.origin>>, <<"destination", a.destination>>,
                        <<"mode", a.mode>>, <<"coord_type", a.coord_type>>,
                        <<"region", a.region>>, <<"origin_region", a.origin_region>>,
                        <<"destination_region", a.destination_region>>,
                        <<"origin_uid", a.origin_uid>>,
                        <<"destination_uid", a.destination_uid>>,
                        <<"sy", a.sy>>, <<"index", a.index>>, <<"target", a.target>>,
                        <<"car_type", a.car_type>>, <<"viaPoints", via.value>>,
                        <<"src", Str(DEFAULT_SRC)>>>>, dev)

\* The legend that follows the list of codes in the nav_type message is left out.
baidumap_start_driving_navigation(a, dev) ==
    LET via == ViaPoints(a.via_points_json, FALSE)
        stop == OrElse(
            RequiredText(a.query, "Query must be provided for driving navigation.", "Query"),
            OrElse(
            Optional(a.location, _validate_lat_lng_format(a.location, "location")),
            OrElse(
            IF a.uid # None /\ ~IsStr(a.uid)
            THEN Failure("UID must be a string, but got type " \o TypeName(a.uid) \o ".")
            ELSE None,
            OrElse(
            IF a.nav_type # None /\ NotAmong(a.nav_type, CarTypes)
            THEN Failure("Invalid nav_type value '" \o PyStr(a.nav_type)
                         \o "'. It should be one of 'BLK', 'TIME', 'DIS', 'FEE', 'HIGHWAY', or 'DEFAULT'.")
            ELSE None,
            OrElse(
            via.stop,
            _validate_coord_type(a.coord_type))))))
    IN  IF stop # None THEN Stopped(stop)
        ELSE Dispatch("navi",
                      <<<<"query", a.query>>, <<"location", a.location>>, <<"uid", a.uid>>,
                        <<"type", a.nav_type>>, <<"viaPoints", via.value>>,
                        <<"coord_type", a.coord_type>>, <<"src", Str(DEFAULT_SRC)>>>>, dev)

baidumap_start_biking_navigation(a, dev) ==
    LET stop == OrElse(
            _validate_lat_lng_format(a.origin, "origin"),
            OrElse(
            _validate_lat_lng_format(a.destination, "destination"),
            _validate_coord_type(a.coord_type)))
    IN  IF stop # None THEN Stopped(stop)
        ELSE Dispatch("bikenavi",
                      <<<<"origin", a.origin>>, <<"destination", a.destination>>,
                        <<"coord_type", a.coord_type>>, <<"src", Str(DEFAULT_SRC)>>>>, dev)

baidumap_start_walking_navigation(a, dev) ==
    LET stop == OrElse(
            _validate_lat_lng_format(a.origin, "origin"),
            OrElse(
            _validate_lat_lng_format(a.destination, "destination"),
            _validate_coord_type(a.coord_type)))
    IN  IF stop # None THEN Stopped(stop)
        ELSE Dispatch("walknavi",
                      <<<<"origin", a.origin>>, <<"destination", a.destination>>,
                        <<"coord_type", a.coord_type>>, <<"src", Str(DEFAULT_SRC)>>>>, dev)

baidumap_show_poi_detail(a, dev) ==
    Dispatch("place/detail",
             <<<<"uid", a.uid>>, <<"show_type", a.show_type>>, <<"src", Str(DEFAULT_SRC)>>>>, dev)

\* A variant that leaves src out of the parameters: not the code.
NewsAssistantWithoutSrc(a, dev) ==
    Dispatch("newsassistant", <<<<"cityid", a.cityid>>>>, dev)

baidumap_open_news_assistant(a, dev) ==
    Dispatch("newsassistant", <<<<"cityid", a.cityid>>, <<"src", Str(DEFAULT_SRC)>>>>, dev)

\* The prompt given to the location collaborator (the map emoji that starts it
\* is left out)
LocationPrompt == " Baidu Maps Plugin requesting location\n"

\* How the location collaborator behaves during a call: "ok", or the statement
\* of the try block that raises
LocationDevices == {"ok", "AndroidDevice", "get_current_location"}

\* A variant without the try statement: not the code.
GetLocationPropagating(a, dev, reply) ==
    IF dev = "ok"
    THEN [outcome |-> "returned", result |-> reply, retAt |-> "return",
          locs |-> <<[provider |-> a.provider, prompt |-> LocationPrompt, returned |-> reply]>>]
    ELSE [outcome |-> "raised", result |-> [exception |-> DeviceError(dev)], retAt |-> "raise",
          locs |-> IF dev = "get_current_location"
                   THEN <<[provider |-> a.provider, prompt |-> LocationPrompt,
                           returned |-> [exception |-> DeviceError(dev)]]>>
                   ELSE <<>>]

\* get_current_location(provider) under a behaviour of the collaborator, which
\* answers reply when it works: what the call returns and the calls of
\* device.get_current_location it makes
get_current_location(a, dev, reply) ==
    IF dev = "ok"
    THEN [outcome |-> "returned", result |-> reply, retAt |-> "return",
          locs |-> <<[provider |-> a.provider, prompt |-> LocationPrompt, returned |-> reply]>>]
    ELSE [outcome |-> "returned",
          result |-> Str("{\"success\": false, \"error\": \"Failed to get current location: "
                         \o DeviceError(dev) \o "\"}"),
          retAt |-> "except",
          locs |-> IF dev = "get_current_location"
                   THEN <<[provider |-> a.provider, prompt |-> LocationPrompt,
                           returned |-> [exception |-> DeviceError(dev)]]>>
                   ELSE <<>>]

(***************************************************************************)
(* The requests the model sends: for each parameter, values of the         *)
(* ToolRequest domain (str, int, None) that pass and that fail each check. *)
(***************************************************************************)
LatLngValues == {Str("40.057406,116.296440"), Str(" -1.5 , 2e1 "), Str("1,a"), Str("1,2,3"),
                 PyInteger(5)}
BoundsValues == {None, Str(""), Str("37.86,-112.59,42.19,118.94"), Str("1,2,3")}
ZoomValues == {PyInteger(13), PyInteger(0), PyInteger(23), Str("11"), Str("x"), None}
TrafficValues == {None, Str("on"), Str("x"), PyInteger(1)}
CoordTypeValues == {Str("wgs84"), Str("xyz"), None}
TextValues == {Str("Beijing Road 9"), Str("a&src=evil?b=1#c"), Str("  "), None, PyInteger(5)}
LocationFieldValues == {Str("Tiananmen"), Str("39.98871,116.43234"),
                        Str("name:A|latlng:39.98871,116.43234"), Str("Main Street, City"),
                        Str("name:A|latlng:abc,def"), PyInteger(5)}
ViaValues == {None,
              Str("[{\"name\":\"A\",\"lat\":22.1,\"lng\":114.1}]"),
              Str(" [ { \"name\" : \"A\" , \"lat\" : 1 , \"lng\" : 2 }, {\"lng\":4,\"lat\":3,\"name\":\"B\"} ] "),
              Str("[]"),
              Str("[{\"name\":\"A\"}]"),
              Str("not json"),
              Str("{\"name\":\"A\",\"lat\":22.1,\"lng\":114.1}"),
              Str("[{\"name\":\"A\",\"lat\":1,\"lng\":2},3]"),
              Str("[{\"name\":1,\"lat\":\"x\",\"lng\":null}]"),
              PyInteger(5)}

(***************************************************************************)
(* The server: one request at a time.  A tool call is one step, from the   *)
(* request to the value returned or the exception raised.                  *)
(***************************************************************************)
Init ==
    /\ pc = "idle"
    /\ tool = "none"
    /\ args = <<>>
    /\ device = "unused"
    /\ outcome = "none"
    /\ result = None
    /\ retAt = "none"
    /\ buildCalls = <<>>
    /\ navCalls = <<>>
    /\ navResults = <<>>
    /\ startActivityCalls = 0
    /\ locationCalls = <<>>

\* The collaborator's behaviour shows only in a call that reaches Navigate
\* (r is what the call does under a device that works).
DevicesFor(r) == IF r.navs = <<>> THEN {"ok"} ELSE Devices

\* The call of tool t with arguments a under device behaviour dev did r.
Call(t, a, dev, r) ==
    /\ pc' = "done"
    /\ tool' = t
    /\ args' = a
    /\ device' = IF r.navs = <<>> THEN "unused" ELSE dev
    /\ outcome' = r.outcome
    /\ result' = r.result
    /\ retAt' = r.retAt
    /\ buildCalls' = r.builds
    /\ navCalls' = r.navs
    /\ navResults' = r.navResults
    /\ startActivityCalls' = r.starts
    /\ locationCalls' = <<>>

ShowMap ==
    /\ pc = "idle"
    /\ \E center \in {None, Str("")} \cup LatLngValues, bounds \in BoundsValues,
          zoom \in ZoomValues, traffic \in TrafficValues, coord_type \in CoordTypeValues :
           LET a == [center |-> center, bounds |-> bounds, zoom |-> zoom,
                     traffic |-> traffic, coord_type |-> coord_type]
           IN  \E dev \in DevicesFor(baidumap_show_map(a, "ok")) :
                   Call("baidumap_show_map", a, dev, baidumap_show_map(a, dev))

AddCustomMarker ==
    /\ pc = "idle"
    /\ \E location \in LatLngValues, title \in {Str("Home"), Str("a&src=evil?b=1#c")},
          content \in {None, Str("")}, zoom \in {PyInteger(13), PyInteger(23), Str("x")},
          traffic \in {None, Str("off"), Str("x")}, coord_type \in CoordTypeValues :
           LET a == [location |-> location, title |-> title, content |-> content,
                     zoom |-> zoom, traffic |-> traffic, coord_type |-> coord_type]
           IN  \E dev \in DevicesFor(baidumap_add_custom_marker(a, "ok")) :
                   Call("baidumap_add_custom_marker", a, dev, baidumap_add_custom_marker(a, dev))

GeocodeAddress ==
    /\ pc = "idle"
    /\ \E address \in TextValues \cup {Str("")} :
           LET a == [address |-> address]
           IN  \E dev \in DevicesFor(baidumap_geocode_address(a, "ok")) :
                   Call("baidumap_geocode_address", a, dev, baidumap_geocode_address(a, dev))

ReverseGeocodeLocation ==
    /\ pc = "idle"
    /\ \E location \in LatLngValues, zoom \in ZoomValues, coord_type \in CoordTypeValues :
           LET a == [location |-> location, zoom |-> zoom, coord_type |-> coord_type]
           IN  \E dev \in DevicesFor(baidumap_reverse_geocode_location(a, "ok")) :
                   Call("baidumap_reverse_geocode_location", a, dev, baidumap_reverse_geocode_location(a, dev))

PoiSearch ==
    /\ pc = "idle"
    /\ \E query \in TextValues, region \in {None, Str("beijing")},
          location \in {None} \cup LocationFieldValues,
          bounds \in {None, Str("37.86,-112.59,42.19,118.94"), Str("1,2,3")},
          radius \in {None, PyInteger(0), PyInteger(500), PyInteger(-1), Str("500")},
          coord_type \in {Str("gcj02"), Str("xyz")} :
           LET a == [query |-> query, region |-> region, location |-> location,
                     bounds |-> bounds, radius |-> radius, coord_type |-> coord_type]
           IN  \E dev \in DevicesFor(baidumap_poi_search(a, "ok")) :
                   Call("baidumap_poi_search", a, dev, baidumap_poi_search(a, dev))

PlanRoute ==
    /\ pc = "idle"
    /\ \E origin \in {Str("39.98871,116.43234"), Str("name:A|latlng:abc,def"), Str("1,a")},
          destination \in {Str("Xizhimen"), Str("1,2,3")},
          mode \in {Str("transit"), Str("fly")},
          coord_type \in {Str("bd09ll"), Str("xyz")},
          sy \in {None, PyInteger(0), PyInteger(7), Str("3")},
          index \in {None, PyInteger(-1), Str("0")},
          target \in {None, PyInteger(1), PyInteger(2)},
          car_type \in {None, Str("FAST")},
          via_points_json \in ViaValues :
           LET a == [origin |-> origin, destination |-> destination, mode |-> mode,
                     coord_type |-> coord_type, region |-> Str("beijing"), origin_region |-> None,
                     destination_region |-> None, origin_uid |-> None,
                     destination_uid |-> None, sy |-> sy, index |-> index,
                     target |-> target, car_type |-> car_type,
                     via_points_json |-> via_points_json]
           IN  \E dev \in DevicesFor(baidumap_plan_route(a, "ok")) :
                   Call("baidumap_plan_route", a, dev, baidumap_plan_route(a, dev))

StartDrivingNavigation ==
    /\ pc = "idle"
    /\ \E query \in {Str("Forbidden City"), Str(""), None},
          location \in {None, Str("39.9,116.4"), Str("1,a")},
          uid \in {None, Str("09185c56"), PyInteger(7)},
          nav_type \in {None, Str("BLK"), Str("FAST")},
          via_points_json \in ViaValues,
          coord_type \in {Str("wgs84"), Str("xyz")} :
           LET a == [query |-> query, location |-> location, uid |-> uid,
                     nav_type |-> nav_type, via_points_json |-> via_points_json,
                     coord_type |-> coord_type]
           IN  \E dev \in DevicesFor(baidumap_start_driving_navigation(a, "ok")) :
                   Call("baidumap_start_driving_navigation", a, dev, baidumap_start_driving_navigation(a, dev))

StartBikingNavigation ==
    /\ pc = "idle"
    /\ \E origin \in LatLngValues, destination \in LatLngValues,
          coord_type \in CoordTypeValues :
           LET a == [origin |-> origin, destination |-> destination, coord_type |-> coord_type]
           IN  \E dev \in DevicesFor(baidumap_start_biking_navigation(a, "ok")) :
                   Call("baidumap_start_biking_navigation", a, dev, baidumap_start_biking_navigation(a, dev))

StartWalkingNavigation ==
    /\ pc = "idle"
    /\ \E origin \in LatLngValues, destination \in LatLngValues,
          coord_type \in CoordTypeValues :
           LET a == [origin |-> origin, destination |-> destination, coord_type |-> coord_type]
           IN  \E dev \in DevicesFor(baidumap_start_walking_navigation(a, "ok")) :
                   Call("baidumap_start_walking_navigation", a, dev, baidumap_start_walking_navigation(a, dev))

ShowPoiDetail ==
    /\ pc = "idle"
    /\ \E uid \in {Str("09185c56d24f7e44f1193763"), None, PyInteger(7)},
          show_type \in {Str("detail_bar"), Str("detail_page"), None} :
           LET a == [uid |-> uid, show_type |-> show_type]
           IN  \E dev \in DevicesFor(baidumap_show_poi_detail(a, "ok")) :
                   Call("baidumap_show_poi_detail", a, dev, baidumap_show_poi_detail(a, dev))

OpenNewsAssistant ==
    /\ pc = "idle"
    /\ \E cityid \in {None, Str("131"), Str(""), PyInteger(131)} :
           LET a == [cityid |-> cityid]
           IN  \E dev \in DevicesFor(baidumap_open_news_assistant(a, "ok")) :
                   Call("baidumap_open_news_assistant", a, dev, baidumap_open_news_assistant(a, dev))

\* What the location collaborator answers when it works
LocationReplies ==
    {Str("{\"latitude\": 39.9, \"longitude\": 116.3, \"address\": \"Mock Location\"}"),
     Str("{\"success\": false, \"error\": \"permission denied\"}"),
     Str("")}

\* The call of get_current_location did r.
LocationCall(a, dev, r) ==
    /\ pc' = "done"
    /\ tool' = "get_current_location"
    /\ args' = a
    /\ device' = dev
    /\ outcome' = r.outcome
    /\ result' = r.result
    /\ retAt' = r.retAt
    /\ buildCalls' = <<>>
    /\ navCalls' = <<>>
    /\ navResults' = <<>>
    /\ startActivityCalls' = 0
    /\ locationCalls' = r.locs

GetCurrentLocation ==
    /\ pc = "idle"
    /\ \E provider \in {None, Str("network"), Str("gps"), Str("satellite"), PyInteger(1)},
          dev \in LocationDevices :
           \E reply \in IF dev = "ok" THEN LocationReplies ELSE {None} :
               LocationCall([provider |-> provider], dev,
                            get_current_location([provider |-> provider], dev, reply))

\* The result has gone back to the caller; nothing of the call is retained.
Respond ==
    /\ pc = "done"
    /\ pc' = "idle"
    /\ tool' = "none"
    /\ args' = <<>>
    /\ device' = "unused"
    /\ outcome' = "none"
    /\ result' = None
    /\ retAt' = "none"
    /\ buildCalls' = <<>>
    /\ navCalls' = <<>>
    /\ navResults' = <<>>
    /\ startActivityCalls' = 0
    /\ locationCalls' = <<>>

Next ==
    \/ ShowMap
    \/ AddCustomMarker
    \/ GeocodeAddress
    \/ ReverseGeocodeLocation
    \/ PoiSearch
    \/ PlanRoute
    \/ StartDrivingNavigation
    \/ StartBikingNavigation
    \/ StartWalkingNavigation
    \/ ShowPoiDetail
    \/ OpenNewsAssistant
    \/ GetCurrentLocation
    \/ Respond

Spec == Init /\ [][Next]_vars

(***************************************************************************)
(* The helper functions on their own: Init draws a function and its        *)
(* arguments, the action of the function applies it.                       *)
(***************************************************************************)
MaxCoordLen == 5
MaxLocationTokens == 3
MaxParams == 3
MaxBoundsParts == 5
MaxZoomLen == 3
MaxZoomInt == 24

\* The texts of at most n pieces, each piece taken from pieces
RECURSIVE TextsOver(_, _)
TextsOver(pieces, n) ==
    IF n = 0 THEN {""}
    ELSE LET shorter == TextsOver(pieces, n - 1)
         IN  shorter \cup {t \o c : t \in shorter, c \in pieces}

CoordTexts == TextsOver({"1", ",", ".", "-", "e", " ", "a"}, MaxCoordLen)
ParamNames == {"center", "origin"}

\* The texts of at most n parts joined by ",", each part taken from parts
RECURSIVE PartsJoined(_, _)
PartsJoined(parts, n) ==
    IF n = 1 THEN parts
    ELSE LET shorter == PartsJoined(parts, n - 1)
         IN  shorter \cup {t \o "," \o part : t \in shorter, part \in parts}

BoundsTexts ==
    PartsJoined({"1", "-112.59", " 2e1 ", "a", "", "1 1"}, MaxBoundsParts)
    \cup {"37.86,-112.59,42.19,118.94"}

\* Integers around the range, texts of digits, signs, blanks and a letter, and null
ZoomInputs ==
    {PyInteger(n) : n \in -2..MaxZoomInt}
    \cup {Str(t) : t \in TextsOver({"0", "1", "2", "3", "-", "+", " ", "a"}, MaxZoomLen)}
    \cup {None}

LocationTexts ==
    TextsOver({"latlng:", "name:", "uid:", "1", ",", ".", "-", "a", "|"}, MaxLocationTokens)
    \cup {"Tiananmen", "Main Street, City", "39.98871,116.43234", "39.98871;116.43234",
          "name:A|latlng:39.98871,116.43234", "name:A|latlng:abc,def",
          "latlng:abc,def", "latlng:39.9,116.4abc", "uid:7,8"}

\* The dicts of at most n entries, as <<key, value>> pairs in insertion order
ParamKeys == {"query", "zoom", "region", "src"}
ParamValues == {None, Str(""), PyInteger(0), Str("a&src=b ?")}
RECURSIVE ParamLists(_)
ParamLists(n) ==
    IF n = 0 THEN {<<>>}
    ELSE LET shorter == ParamLists(n - 1)
         IN  shorter \cup
             {Append(x[1], <<x[2], x[3]>>) :
                 x \in {y \in shorter \X ParamKeys \X ParamValues :
                           \A i \in 1..Len(y[1]) : y[1][i][1] # y[2]}}

InitFunctions ==
    /\ pc = "idle"
    /\ \/ /\ tool = "_validate_lat_lng_format"
          /\ args \in {[value_str |-> Str(s), param_name |-> p] : s \in CoordTexts, p \in ParamNames}
       \/ /\ tool = "_validate_bounds_format"
          /\ args \in {[value_str |-> Str(s), param_name |-> p] :
                          s \in BoundsTexts, p \in {"bounds", "area"}}
       \/ /\ tool = "_validate_zoom_level"
          /\ args \in {[zoom |-> z] : z \in ZoomInputs}
       \/ /\ tool = "_validate_location_field_format"
          /\ args \in {[value_str |-> Str(s), param_name |-> "origin"] : s \in LocationTexts}
       \/ /\ tool = "build_baidu_uri"
          /\ args \in {[path |-> p, params |-> ps] : p \in {"show", "place/search"},
                                                     ps \in ParamLists(MaxParams)}
    /\ device = "unused"
    /\ outcome = "none"
    /\ result = None
    /\ retAt = "none"
    /\ buildCalls = <<>>
    /\ navCalls = <<>>
    /\ navResults = <<>>
    /\ startActivityCalls = 0
    /\ locationCalls = <<>>

\* The function drawn returns value.
Return(value) ==
    /\ pc' = "done"
    /\ outcome' = "returned"
    /\ result' = value
    /\ retAt' = "return"
    /\ UNCHANGED <<tool, args, device, buildCalls, navCalls, navResults, startActivityCalls,
                   locationCalls>>

ValidateLatLng ==
    /\ pc = "idle"
    /\ tool = "_validate_lat_lng_format"
    /\ Return(_validate_lat_lng_format(args.value_str, args.param_name))

ValidateBounds ==
    /\ pc = "idle"
    /\ tool = "_validate_bounds_format"
    /\ Return(_validate_bounds_format(args.value_str, args.param_name))

ValidateZoom ==
    /\ pc = "idle"
    /\ tool = "_validate_zoom_level"
    /\ Return(_validate_zoom_level(args.zoom))

ValidateLocationField ==
    /\ pc = "idle"
    /\ tool = "_validate_location_field_format"
    /\ Return(_validate_location_field_format(args.value_str, args.param_name))

BuildBaiduUri ==
    /\ pc = "idle"
    /\ tool = "build_baidu_uri"
    /\ Return(Str(build_baidu_uri(args.path, args.params)))

NextFunctions ==
    \/ ValidateLatLng
    \/ ValidateBounds
    \/ ValidateZoom
    \/ ValidateLocationField
    \/ BuildBaiduUri

SpecFunctions == InitFunctions /\ [][NextFunctions]_vars

(***************************************************************************)
(* Process start (SpecMain): main() of the package is run once on a        *)
(* command line, an environment and the files it reads.                    *)
(***************************************************************************)
\* The position of the first occurrence of c in s at or after i, 0 when none
RECURSIVE FindFrom(_, _, _)
FindFrom(s, c, i) ==
    IF i > Len(s) THEN 0
    ELSE IF Ch(s, i) = c THEN i
    ELSE FindFrom(s, c, i + 1)

\* os.environ[key] = value
EnvSet(environ, key, value) ==
    [k \in DOMAIN environ \cup {key} |-> IF k = key THEN value ELSE environ[k]]

\* One line of the env file: nothing for an empty line or a comment; otherwise
\* key, value = line.split("=", 1) and os.environ[key] = value
EnvLine(environ, line, eq) ==
    IF line = "" \/ StartsAt(line, 1, "#")
    THEN [environ |-> environ, exception |-> None]
    ELSE IF eq = 0
    THEN [environ |-> environ,
          exception |-> Str("ValueError: not enough values to unpack (expected 2, got 1)")]
    ELSE IF eq = 1
    THEN [environ |-> environ, exception |-> Str("OSError: [Errno 22] Invalid argument")]
    ELSE [environ |-> EnvSet(environ, SubSeq(line, 1, eq - 1), From(line, eq + 1)),
          exception |-> None]

\* The loop of load_env from line i on; it ends at the first line that raises
RECURSIVE EnvLines(_, _, _), EnvLinesNext(_, _, _)
EnvLines(lines, i, environ) ==
    IF i > Len(lines) THEN [environ |-> environ, exception |-> None]
    ELSE EnvLinesNext(lines, i, EnvLine(environ, Strip(lines[i]), FindFrom(Strip(lines[i]), "=", 1)))

EnvLinesNext(lines, i, r) ==
    IF r.exception # None THEN r ELSE EnvLines(lines, i + 1, r.environ)

\* load_env(): env is the lines of /app/.env, or None when the file is missing
load_env(env, environ) ==
    IF env = None THEN [environ |-> environ, exception |-> None]
    ELSE EnvLines(env.lines, 1, environ)

\* The variables main() sets in debug mode
DebugEnviron(environ, phone_ip) ==
    [k \in DOMAIN environ \cup {"RPC_HOST", "THING_HOST", "PLAYER_HOST",
                                "RPC_PORT", "THING_PORT", "PLAYER_PORT"} |->
        CASE k \in {"RPC_HOST", "THING_HOST", "PLAYER_HOST"} -> phone_ip
          [] k = "RPC_PORT" -> "30923"
          [] k = "THING_PORT" -> "30926"
          [] k = "PLAYER_PORT" -> "30930"
          [] OTHER -> environ[k]]

\* The end of main() once the environment is prepared: the log file is removed and
\* run() is called
StartServer(a, r) ==
    IF r.exception # None
    THEN [outcome |-> "raised", exception |-> r.exception, calls |-> <<>>,
          environ |-> r.environ, log |-> a.log]
    ELSE [outcome |-> "returned", exception |-> None, calls |-> <<"run">>,
          environ |-> r.environ, log |-> FALSE]

\* main() on the command line a.argv, the environment a.environ, the content
\* a.phone_ip of phone_ip.txt and a.env of /app/.env (None: no such file), and
\* a.log, whether baidu_maps_mcp.log exists
main(a) ==
    IF Len(a.argv) = 2 /\ a.argv[2] = "list-tools"
    THEN [outcome |-> "returned", exception |-> None, calls |-> <<"list_tools">>,
          environ |-> a.environ, log |-> a.log]
    ELSE IF "PC_DEBUG" \in DOMAIN a.environ /\ a.environ["PC_DEBUG"] # ""
    THEN IF a.phone_ip = None
         THEN StartServer(a, [environ |-> a.environ,
                              exception |-> Str("FileNotFoundError: [Errno 2] No such file or directory: 'phone_ip.txt'")])
         ELSE IF Strip(a.phone_ip.s) = ""
         THEN StartServer(a, [environ |-> a.environ,
                              exception |-> Str("Exception: phone_ip.txt is empty")])
         ELSE StartServer(a, [environ |-> DebugEnviron(a.environ, Strip(a.phone_ip.s)),
                              exception |-> None])
    ELSE StartServer(a, load_env(a.env, a.environ))

\* The longest env file drawn, in lines
MaxEnvLines == 2

EnvFileLines == {"A=1", "  A=2  ", "# c", "", "FOO", "B=x=y", "=v"}

EnvFiles(n) ==
    {None} \cup {[lines |-> ls] : ls \in UNION {[1..k -> EnvFileLines] : k \in 0..n}}

Environs == {<<>>, [k \in {"PC_DEBUG"} |-> ""], [k \in {"PC_DEBUG"} |-> "1"]}

InitMain ==
    /\ pc = "idle"
    /\ tool = "main"
    /\ args \in {[argv |-> argv, environ |-> environ, phone_ip |-> phone_ip, env |-> env,
                  log |-> log] :
                    argv \in {<<"xiaozhi-baidumap-mcp">>, <<"xiaozhi-baidumap-mcp", "list-tools">>,
                              <<"xiaozhi-baidumap-mcp", "list-tools", "-v">>},
                    environ \in Environs,
                    phone_ip \in {None, Str(""), Str(" \n"), Str("192.168.1.5\n")},
                    env \in EnvFiles(MaxEnvLines),
                    log \in BOOLEAN}
    /\ device = "unused"
    /\ outcome = "none"
    /\ result = None
    /\ retAt = "none"
    /\ buildCalls = <<>>
    /\ navCalls = <<>>
    /\ navResults = <<>>
    /\ startActivityCalls = 0
    /\ locationCalls = <<>>

\* main() did r.
MainDid(r) ==
    /\ pc' = "done"
    /\ outcome' = r.outcome
    /\ result' = r
    /\ retAt' = IF r.outcome = "raised" THEN "raise" ELSE "return"
    /\ UNCHANGED <<tool, args, device, buildCalls, navCalls, navResults, startActivityCalls,
                   locationCalls>>

Main ==
    /\ pc = "idle"
    /\ tool = "main"
    /\ MainDid(main(args))

NextMain == Main

SpecMain == InitMain /\ [][NextMain]_vars

(***************************************************************************)
(* Properties of a tool call (under Spec)                                  *)
(***************************************************************************)
NavigatorBacked ==
    {"baidumap_show_map", "baidumap_add_custom_marker", "baidumap_geocode_address",
     "baidumap_reverse_geocode_location", "baidumap_poi_search", "baidumap_plan_route",
     "baidumap_start_driving_navigation", "baidumap_start_biking_navigation",
     "baidumap_start_walking_navigation"}

\* C1: when a call of a Navigator-backed tool returns a validation failure
\* envelope, neither build_baidu_uri nor Navigate has been called during that
\* call, and so start_activity has not been invoked.
ValidationFailureBeforeAnyDispatch ==
    (pc = "done" /\ tool \in NavigatorBacked /\ retAt = "validate")
        => /\ IsFailure(result)
           /\ buildCalls = <<>>
           /\ navCalls = <<>>
           /\ startActivityCalls = 0

\* A route request whose last check, the way-points, fails
RouteStoppedAtWayPoints ==
    /\ pc = "done"
    /\ tool = "baidumap_plan_route"
    /\ args.via_points_json = Str("[{\"name\":\"A\"}]")
    /\ result = Failure("Invalid via_points_json format. Each point should contain 'name', 'lat', and 'lng' keys.")
    /\ buildCalls = <<>>

\* C2: in one tool call Navigate is called at most once and start_activity is
\* attempted at most once, also when the dispatch fails.
DispatchAtMostOnce ==
    /\ Len(navCalls) <= 1
    /\ Len(navResults) = Len(navCalls)
    /\ startActivityCalls <= 1

\* A call whose start_activity failed: it was attempted once
StartActivityFailedOnce ==
    /\ pc = "done"
    /\ device = "start_activity"
    /\ Len(navCalls) = 1
    /\ startActivityCalls = 1
    /\ IsFailure(result)

\* C3: Navigate never propagates a failure of the device collaborator: when a
\* step fails it returns {success: false, error: <description>}, when none
\* fails it returns {success: true, message: <text containing the URI>}.
NavigateNeverPropagates ==
    (pc = "done" /\ navCalls # <<>>)
        => /\ outcome = "returned"
           /\ Len(navResults) = 1
           /\ IF device = "ok"
              THEN /\ IsSuccess(navResults[1])
                   /\ Contains(navResults[1].message, navCalls[1])
              ELSE /\ IsFailure(navResults[1])
                   /\ navResults[1].error = DeviceError(device)

\* A call during which Uri.parse failed
UriParseFailureReturned ==
    /\ pc = "done"
    /\ device = "Uri.parse"
    /\ outcome = "returned"
    /\ navResults = <<[success |-> FALSE, error |-> "Uri.parse failed"]>>

\* C4: for arguments that are strings, integers or nulls every call returns a
\* result envelope and never raises.
EveryCallReturnsAnEnvelope ==
    pc = "done" => /\ outcome = "returned"
                   /\ \/ tool = "get_current_location"
                      \/ IsFailure(result)
                      \/ IsSuccess(result)

\* C5: when all validators of a call pass, the tool builds exactly one URI,
\* passes it to Navigate and returns what Navigate returned, unchanged, for a
\* device that works and for one that fails.
ValidCallReturnsNavigateResult ==
    (pc = "done" /\ retAt = "navigate")
        => /\ Len(buildCalls) = 1
           /\ buildCalls[1].uri = build_baidu_uri(buildCalls[1].path, buildCalls[1].params)
           /\ navCalls = <<buildCalls[1].uri>>
           /\ Len(navResults) = 1
           /\ result = navResults[1]
           /\ IsSuccess(result) <=> device = "ok"

\* A valid biking request on a device whose set_data fails
BikingFailureReturnedUnchanged ==
    /\ pc = "done"
    /\ tool = "baidumap_start_biking_navigation"
    /\ device = "set_data"
    /\ Len(buildCalls) = 1
    /\ result = [success |-> FALSE, error |-> "set_data failed"]

\* The position of the first "?" of a URI, past its end when it has none
QueryMark(u) ==
    IF \E i \in 1..Len(u) : Ch(u, i) = "?"
    THEN CHOOSE i \in 1..Len(u) : Ch(u, i) = "?" /\ \A j \in 1..(i - 1) : Ch(u, j) # "?"
    ELSE Len(u) + 1

\* part is one of the "&"-separated parts of the query of a URI
InQuery(u, part) ==
    \E i \in QueryMark(u)..Len(u) :
        /\ Ch(u, i) \in {"?", "&"}
        /\ StartsAt(u, i + 1, part)
        /\ i + Len(part) = Len(u) \/ Ch(u, i + Len(part) + 1) = "&"

\* C7: every URI handed to Navigate is baidumap://map/<path> with <path> one
\* of the ten paths, and its query holds src=andr.xiaomi.assistant.
EveryUriNamesTheApplication ==
    \A i \in 1..Len(navCalls) :
        /\ StartsAt(navCalls[i], 1, "baidumap://map/")
        /\ SubSeq(navCalls[i], Len("baidumap://map/") + 1, QueryMark(navCalls[i]) - 1)
               \in {"show", "marker", "geocoder", "place/search", "direction", "navi",
                    "bikenavi", "walknavi", "place/detail", "newsassistant"}
        /\ InQuery(navCalls[i], "src=andr.xiaomi.assistant")

\* An address that itself holds "&src=": it is encoded, the constant follows
AddressWithSrcInside ==
    /\ pc = "done"
    /\ tool = "baidumap_geocode_address"
    /\ navCalls = <<"baidumap://map/geocoder?address=a%26src%3Devil%3Fb%3D1%23c&src=andr.xiaomi.assistant">>

\* The text decodes to a list of objects with name (a string), lat and lng (numbers)
WellFormedWayPoints(text) ==
    LET r == json_loads(text)
    IN  /\ r.ok
        /\ r.v.t = "list"
        /\ \A i \in 1..Len(r.v.items) :
               /\ r.v.items[i].t = "dict"
               /\ DictHas(r.v.items[i], "name") /\ IsStr(DictGet(r.v.items[i], "name"))
               /\ DictHas(r.v.items[i], "lat") /\ DictGet(r.v.items[i], "lat").t \in {"int", "float"}
               /\ DictHas(r.v.items[i], "lng") /\ DictGet(r.v.items[i], "lng").t \in {"int", "float"}

\* C8: in baidumap_plan_route and baidumap_start_driving_navigation a call with
\* way-points is dispatched only if the text decodes to a list of objects with
\* name (a string), lat (a number) and lng (a number); any other text yields a
\* failure envelope and no dispatch.
WayPointsCheckedBeforeDispatch ==
    (/\ pc = "done"
     /\ tool \in {"baidumap_plan_route", "baidumap_start_driving_navigation"}
     /\ IsStr(args.via_points_json)
     /\ ~WellFormedWayPoints(args.via_points_json.s))
        => /\ navCalls = <<>>
           /\ outcome = "returned" => IsFailure(result)

(***************************************************************************)
(* Properties of the helper functions (under SpecFunctions)                *)
(***************************************************************************)
\* The key of each "&"-separated part of a query string
QueryKeys(query) ==
    {Split(Split(query, "&")[i], "=")[1] : i \in 1..Len(Split(query, "&"))}

\* C6: build_baidu_uri returns baidumap://map/<path>, followed by ?<query>
\* exactly when some parameter is not null; the keys of the query are the keys
\* of the parameters that are not null, those of "" and 0 included.
BuildQueryHasTheNonNullKeys ==
    (pc = "done" /\ tool = "build_baidu_uri")
        => LET kept == {args.params[i][1] :
                           i \in {j \in 1..Len(args.params) : args.params[j][2] # None}}
               stem == "baidumap://map/" \o args.path
           IN  IF kept = {} THEN result.s = stem
               ELSE /\ StartsAt(result.s, 1, stem \o "?")
                    /\ QueryKeys(From(result.s, Len(stem) + 2)) = kept

\* An empty string and a 0 are kept, a null is dropped
EmptyAndZeroKept ==
    /\ pc = "done"
    /\ tool = "build_baidu_uri"
    /\ args.params = <<<<"query", Str("")>>, <<"region", None>>, <<"zoom", PyInteger(0)>>>>
    /\ result = Str("baidumap://map/show?query=&zoom=0")

\* s has exactly one comma, and the text on each side of it, stripped, is a number
TwoNumericParts(s) ==
    \E k \in 1..Len(s) :
        /\ {i \in 1..Len(s) : Ch(s, i) = ","} = {k}
        /\ PyFloatOk(Strip(SubSeq(s, 1, k - 1)))
        /\ PyFloatOk(Strip(SubSeq(s, k + 1, Len(s))))

\* The text that follows the first "latlng:" marker, up to the next "|"
AfterMarker(s) ==
    LET at == CHOOSE i \in 1..Len(s) :
                  /\ StartsAt(s, i, "latlng:")
                  /\ \A j \in 1..(i - 1) : ~StartsAt(s, j, "latlng:")
    IN  Split(From(s, at + Len("latlng:")), "|")[1]

\* C9: _validate_location_field_format accepts a value with a latlng: marker
\* exactly when the coordinate after the marker is a lat,lng pair; a value
\* without the marker, with a comma and with neither "name:" nor "uid:",
\* exactly when the whole value is a lat,lng pair; and every other value.
LocationFieldThreeWayRule ==
    (pc = "done" /\ tool = "_validate_location_field_format")
        => (result = None) <=>
               IF Contains(args.value_str.s, "latlng:")
               THEN TwoNumericParts(AfterMarker(args.value_str.s))
               ELSE IF /\ Contains(args.value_str.s, ",")
                       /\ ~Contains(args.value_str.s, "name:")
                       /\ ~Contains(args.value_str.s, "uid:")
               THEN TwoNumericParts(args.value_str.s)
               ELSE TRUE

\* C10: _validate_lat_lng_format returns no error exactly when the value splits
\* on "," into two parts that are both numeric; for every other string it
\* returns a failure envelope whose error names the field.
LatLngAcceptsExactlyTwoNumbers ==
    (pc = "done" /\ tool = "_validate_lat_lng_format")
        => IF TwoNumericParts(args.value_str.s)
           THEN result = None
           ELSE /\ IsFailure(result)
                /\ Contains(result.error, "'" \o args.param_name \o "'")

\* A pair with white space around a part is accepted
PaddedPairAccepted ==
    /\ pc = "done"
    /\ tool = "_validate_lat_lng_format"
    /\ args = [value_str |-> Str(" 1,1"), param_name |-> "center"]
    /\ result = None

\* The texts between the commas of s, stripped
Segments(s) ==
    LET marks == {i \in 1..Len(s) : Ch(s, i) = ","} \cup {0, Len(s) + 1}
    IN  {Strip(SubSeq(s, a + 1, (CHOOSE b \in marks : b > a /\ \A c \in marks : c > a => b <= c) - 1)) :
            a \in marks \ {Len(s) + 1}}

\* s has exactly three commas and each text between them, stripped, is a number
FourNumericParts(s) ==
    /\ Cardinality({i \in 1..Len(s) : Ch(s, i) = ","}) = 3
    /\ \A part \in Segments(s) : PyFloatOk(part)

\* C11: _validate_bounds_format returns no error exactly when the value splits
\* on "," into four parts that are all numeric; any other number of parts and
\* any non-numeric part yield a failure envelope whose error names the field.
BoundsAcceptsExactlyFourNumbers ==
    (pc = "done" /\ tool = "_validate_bounds_format")
        => IF FourNumericParts(args.value_str.s)
           THEN result = None
           ELSE /\ IsFailure(result)
                /\ Contains(result.error, "'" \o args.param_name \o "'")

\* Three numbers are rejected for their count
ThreePartsRejected ==
    /\ pc = "done"
    /\ tool = "_validate_bounds_format"
    /\ args = [value_str |-> Str("1,1,1"), param_name |-> "bounds"]
    /\ IsFailure(result)
    /\ Contains(result.error, "has an incorrect format")

\* The number a text of decimal digits denotes
RECURSIVE DecimalOf(_)
DecimalOf(digits) ==
    IF digits = "" THEN 0
    ELSE 10 * DecimalOf(SubSeq(digits, 1, Len(digits) - 1)) + DigitVal(Ch(digits, Len(digits)))

\* text, stripped, is an optional sign and decimal digits that denote a number of 1..22
TextOfZoomInRange(text) ==
    LET t == Strip(text)
        digits == IF Ch(t, 1) \in {"+", "-"} THEN From(t, 2) ELSE t
    IN  /\ digits # ""
        /\ \A i \in 1..Len(digits) : Ch(digits, i) \in Digits
        /\ Ch(t, 1) # "-"
        /\ DecimalOf(digits) \in 1..22

\* C12: _validate_zoom_level returns no error exactly when zoom is an integer,
\* or a string coercible to an integer, whose value lies in 1..22; every other
\* value, null included, yields a failure envelope.
ZoomAcceptsExactlyOneToTwentyTwo ==
    (pc = "done" /\ tool = "_validate_zoom_level")
        => IF \/ args.zoom.t = "int" /\ args.zoom.n \in 1..22
              \/ args.zoom.t = "str" /\ TextOfZoomInRange(args.zoom.s)
           THEN result = None
           ELSE IsFailure(result)

\* An explicit null zoom is rejected for its type
NullZoomRejected ==
    /\ pc = "done"
    /\ tool = "_validate_zoom_level"
    /\ args.zoom = None
    /\ result = [success |-> FALSE,
                 error |-> "Invalid zoom level type '<class 'NoneType'>'. It should be an integer or string."]

(***************************************************************************)
(* Properties of single tools (under Spec)                                 *)
(***************************************************************************)
\* C13: baidumap_show_map called with neither center nor bounds returns the
\* failure envelope and does not call Navigate, whatever the values of zoom,
\* traffic and coord_type.
ShowMapNeedsCenterOrBounds ==
    (/\ pc = "done"
     /\ tool = "baidumap_show_map"
     /\ args.center = None
     /\ args.bounds = None)
        => /\ outcome = "returned"
           /\ result = [success |-> FALSE,
                        error |-> "Either 'center' or 'bounds' must be provided for showing the map."]
           /\ navCalls = <<>>
           /\ startActivityCalls = 0

\* Neither center nor bounds, with the other three arguments valid
NeitherCenterNorBounds ==
    /\ pc = "done"
    /\ tool = "baidumap_show_map"
    /\ args = [center |-> None, bounds |-> None, zoom |-> PyInteger(13),
               traffic |-> Str("on"), coord_type |-> Str("wgs84")]
    /\ IsFailure(result)
    /\ navCalls = <<>>

\* The first element of checks that is not None; None when there is none
FirstOf(checks) ==
    IF \A i \in 1..Len(checks) : checks[i] = None THEN None
    ELSE checks[CHOOSE i \in 1..Len(checks) :
                    checks[i] # None /\ \A j \in 1..(i - 1) : checks[j] = None]

\* What each check of baidumap_show_map says of the arguments, in the order
\* presence of center/bounds, center, bounds, zoom, traffic, coord_type
ShowMapChecks(a) ==
    <<IF a.center \in {None, Str(""), PyInteger(0)} /\ a.bounds \in {None, Str(""), PyInteger(0)}
      THEN Failure("Either 'center' or 'bounds' must be provided for showing the map.")
      ELSE None,
      IF a.center = None THEN None ELSE _validate_lat_lng_format(a.center, "center"),
      IF a.bounds = None THEN None ELSE _validate_bounds_format(a.bounds, "bounds"),
      _validate_zoom_level(a.zoom),
      _validate_traffic(a.traffic),
      _validate_coord_type(a.coord_type)>>

\* What each check of baidumap_plan_route says of the arguments, in the order
\* origin, destination, mode, coord_type, sy, index, target, car_type,
\* via_points_json; a comparison that cannot be made says TypeError.
PlanRouteChecks(a) ==
    <<_validate_location_field_format(a.origin, "origin"),
      _validate_location_field_format(a.destination, "destination"),
      IF a.mode.t = "str" /\ a.mode.s \in Modes THEN None
      ELSE Failure("Invalid mode '" \o PyStr(a.mode)
                   \o "'. It should be one of 'transit', 'driving', 'walking', 'riding', 'truck', or 'neweng'."),
      _validate_coord_type(a.coord_type),
      CASE a.sy = None -> None
        [] a.sy.t # "int" -> TypeError
        [] a.sy.n \in 0..6 -> None
        [] OTHER -> Failure("Invalid sy value '" \o PyStr(a.sy) \o "'. It should be between 0 and 6."),
      CASE a.index = None -> None
        [] a.index.t # "int" -> TypeError
        [] a.index.n >= 0 -> None
        [] OTHER -> Failure("Invalid index value '" \o PyStr(a.index) \o "'. It should be non-negative."),
      IF a.target \in {None, PyInteger(0), PyInteger(1)} THEN None
      ELSE Failure("Invalid target value '" \o PyStr(a.target)
                   \o "'. It should be 0 or 1. 0 for map, 1 for detail."),
      IF a.car_type = None \/ (a.car_type.t = "str" /\ a.car_type.s \in CarTypes) THEN None
      ELSE Failure("Invalid car_type value '" \o PyStr(a.car_type)
                   \o "'. It should be one of 'BLK', 'TIME', 'DIS', 'FEE', 'HIGHWAY', or 'DEFAULT'."),
      ViaPoints(a.via_points_json, TRUE).stop>>

\* The call returned first, when first is a failure
ReturnedWhenFailure(first) ==
    (first # None /\ ~IsException(first)) => (retAt = "validate" /\ result = first)

\* C14: the validators of a tool run in a fixed order and stop at the first
\* failure: when several arguments of a call are invalid, the error returned
\* is that of the earliest failing check, for baidumap_show_map and for
\* baidumap_plan_route in the order of their checks.
EarliestFailingCheckReturned ==
    /\ (pc = "done" /\ tool = "baidumap_show_map")
           => ReturnedWhenFailure(FirstOf(ShowMapChecks(args)))
    /\ (pc = "done" /\ tool = "baidumap_plan_route")
           => ReturnedWhenFailure(FirstOf(PlanRouteChecks(args)))

\* Every argument of a map request is invalid: the error is that of center
AllInvalidCenterReported ==
    /\ pc = "done"
    /\ tool = "baidumap_show_map"
    /\ args = [center |-> Str("1,a"), bounds |-> Str("1,2,3"), zoom |-> Str("x"),
               traffic |-> Str("x"), coord_type |-> Str("xyz")]
    /\ IsFailure(result)
    /\ StartsAt(result.error, 1, "Parameter 'center' ('1,a') contains non-numeric coordinates.")

\* C18: baidumap_show_map reaches dispatch if and only if at least one of
\* center and bounds is non-null and non-empty, center, when non-null, is a
\* lat,lng pair, bounds, when non-null, is a four-number string, and zoom,
\* traffic and coord_type are valid; an empty center is validated, and
\* rejected, also when bounds is well formed.
ShowMapDispatchesExactlyWhenValid ==
    (pc = "done" /\ tool = "baidumap_show_map")
        => (navCalls # <<>>) <=>
               /\ args.center \notin {None, Str("")} \/ args.bounds \notin {None, Str("")}
               /\ args.center = None
                  \/ (args.center.t = "str" /\ TwoNumericParts(args.center.s))
               /\ args.bounds = None
                  \/ (args.bounds.t = "str" /\ FourNumericParts(args.bounds.s))
               /\ \/ args.zoom.t = "int" /\ args.zoom.n \in 1..22
                  \/ args.zoom.t = "str" /\ TextOfZoomInRange(args.zoom.s)
               /\ args.traffic \in {None, Str("on"), Str("off")}
               /\ args.coord_type \in {Str("bd09ll"), Str("bd09mc"), Str("gcj02"), Str("wgs84")}

\* An empty center with well-formed bounds: rejected for the center
EmptyCenterWithBoundsRejected ==
    /\ pc = "done"
    /\ tool = "baidumap_show_map"
    /\ args = [center |-> Str(""), bounds |-> Str("37.86,-112.59,42.19,118.94"),
               zoom |-> PyInteger(13), traffic |-> None, coord_type |-> Str("wgs84")]
    /\ IsFailure(result)
    /\ StartsAt(result.error, 1, "Parameter 'center' ('') has an incorrect format.")
    /\ navCalls = <<>>

ParamOf(params, key) == params[CHOOSE i \in 1..Len(params) : params[i][1] = key][2]

\* C19: in baidumap_plan_route and baidumap_start_driving_navigation, when
\* via_points_json is supplied and passes validation, the value under viaPoints
\* in the parameters given to build_baidu_uri is the list decoded from it, not
\* the text the caller supplied; when via_points_json is null, the URI has no
\* viaPoints parameter.
ViaPointsIsTheDecodedList ==
    (/\ pc = "done"
     /\ tool \in {"baidumap_plan_route", "baidumap_start_driving_navigation"}
     /\ retAt = "navigate")
        => IF args.via_points_json = None
           THEN /\ ParamOf(buildCalls[1].params, "viaPoints") = None
                /\ \A i \in 1..Len(navCalls[1]) : ~StartsAt(navCalls[1], i, "viaPoints")
           ELSE /\ ParamOf(buildCalls[1].params, "viaPoints").t = "list"
                /\ ParamOf(buildCalls[1].params, "viaPoints") = json_loads(args.via_points_json.s).v
                /\ ParamOf(buildCalls[1].params, "viaPoints") # args.via_points_json
                /\ InQuery(navCalls[1],
                           "viaPoints=" \o quote_plus(PyRepr(ParamOf(buildCalls[1].params, "viaPoints"))))

\* A driving request with one way-point: the URI carries str() of the list
DrivingWithOneWayPoint ==
    /\ pc = "done"
    /\ tool = "baidumap_start_driving_navigation"
    /\ args.via_points_json = Str("[{\"name\":\"A\",\"lat\":22.1,\"lng\":114.1}]")
    /\ Len(navCalls) = 1
    /\ InQuery(navCalls[1], "viaPoints=%5B%7B%27name%27%3A+%27A%27%2C+%27lat%27%3A+22.1%2C+%27lng%27%3A+114.1%7D%5D")

\* C15: get_current_location never builds a URI and never calls Navigate; it
\* calls the location collaborator once, with the provider and a prompt, and
\* returns what the collaborator returned, unchanged; when the collaborator
\* fails it returns an error string, not an envelope, and does not raise.
LocationResultReturnedUnchanged ==
    (pc = "done" /\ tool = "get_current_location")
        => /\ outcome = "returned"
           /\ buildCalls = <<>>
           /\ navCalls = <<>>
           /\ startActivityCalls = 0
           /\ IF device = "ok"
              THEN /\ Len(locationCalls) = 1
                   /\ locationCalls[1].provider = args.provider
                   /\ Contains(locationCalls[1].prompt, "requesting location")
                   /\ result = locationCalls[1].returned
              ELSE /\ Len(locationCalls) <= 1
                   /\ result.t = "str"
                   /\ StartsAt(result.s, 1, "{\"success\": false, \"error\": \"Failed to get current location: ")
                   /\ Contains(result.s, DeviceError(device))

\* The collaborator's get_current_location failed: an error string comes back
LocationFailureReturnedAsText ==
    /\ pc = "done"
    /\ tool = "get_current_location"
    /\ device = "get_current_location"
    /\ Len(locationCalls) = 1
    /\ outcome = "returned"
    /\ result = Str("{\"success\": false, \"error\": \"Failed to get current location: get_current_location failed\"}")

(***************************************************************************)
(* Properties of process start (under SpecMain)                            *)
(***************************************************************************)
DebugMode == "PC_DEBUG" \in DOMAIN args.environ /\ args.environ["PC_DEBUG"] # ""

ListToolsCommand == Len(args.argv) = 2 /\ args.argv[2] = "list-tools"

\* C16: main() fails to start exactly when phone_ip.txt is empty in debug mode;
\* in every other case that is not the list-tools command it reaches run().
MainStartsUnlessDeviceFileEmpty ==
    (pc = "done" /\ tool = "main" /\ ~ListToolsCommand)
        => IF DebugMode /\ args.phone_ip # None /\ Strip(args.phone_ip.s) = ""
           THEN outcome = "raised" /\ result.calls = <<>>
           ELSE outcome = "returned" /\ result.calls = <<"run">>

====
